---- MODULE Spec2Model ----
(***************************************************************************)
(* A model of e2e/runner/runner.py: the retry coordinator, the job poller, *)
(* the bucket-policy adapters and the scenario orchestrator, run against a *)
(* backend whose answers are chosen nondeterministically.                  *)
(*                                                                         *)
(* Durations are integers in units of 10^-8 s (Unit per second), so that   *)
(* base_s * 1.3^n is exact for every n the model needs.                    *)
(***************************************************************************)
EXTENDS Integers, Sequences, FiniteSets, TLC

VARIABLES
    pc,         \* where the single thread of control is
    what,       \* the operation the running retry() call wraps
    step,       \* position inside that operation: "call", its own steps, "raised", "returned"
    rt,         \* locals of the running retry() call
    operr,      \* the exception the wrapped operation raised (step = "raised")
    opval,      \* the value the wrapped operation returned (step = "returned")
    opCalls,    \* history: calls of the wrapped operation in this retry() call
    opFails,    \* history: of those, the calls that raised
    scen,       \* index of the running scenario (1..3), 0 outside run_scenario
    trace,      \* history: requests issued by the current policy-adapter invocation
    obs,        \* history: what the adapter's verification GETs answered
    uploaded,   \* hello_content of the running scenario
    downloaded, \* bytes the download returned
    now,        \* seconds elapsed since the running deadline loop computed its deadline
    srvErr,     \* wait_for_server's last_err
    job,        \* poll_job's locals and history
    gcsEnv,     \* value of the E2E_GCS_IAM environment variable
    mp,         \* a multipart_form call: its argument, uuid4's value, its result
    doc,        \* the GCS adapter's policy documents: its objects and what it sent
    wb,         \* history: every answer of this scenario was the correct backend's
    exitCode,   \* process exit status, -1 while running
    err,        \* the exception that ended the run
    log         \* history: the lines logged by run_scenario's entry, main's end and __main__

rvars == <<what, step, rt, operr, opval, opCalls, opFails>>

svars == <<scen, trace, obs, uploaded, downloaded>>

tvars == <<now, srvErr, job>>

evars == <<exitCode, err, log>>

vars == <<pc, rvars, svars, tvars, gcsEnv, mp, doc, doc, wb, evars>>

-----------------------------------------------------------------------------
(* Bounds of the model *)

\* largest `attempts` the retry harness is called with
MaxAttempts == 16

\* base_s values the harness draws, in tenths of a second (0.8 and 1.0 are the
\* ones run_scenario passes)
Bases == {8, 10, 20}

-----------------------------------------------------------------------------
(* Program constants *)

\* 1 s in model units
Unit == 100000000

\* sleep_backoff's max_s = 5.0
MaxS == 500000000

\* sleep_backoff's factor = 1.3 = FactorNum / FactorDen
FactorNum == 13

FactorDen == 10

Min(a, b) == IF a <= b THEN a ELSE b

Max(a, b) == IF a >= b THEN a ELSE b

Secs(tenths) == tenths * (Unit \div 10)

-----------------------------------------------------------------------------
(* Exceptions *)

NoErr == [kind |-> "none", code |-> "none", detail |-> "none", id |-> 0]

Err(kind, code, detail) == [kind |-> kind, code |-> code, detail |-> detail, id |-> 0]

\* the error codes an HTTPFailure's envelope can carry
ErrorCodes == {"none", "internal", "bucket_policy_delete_unsupported"}

\* what _request raises: HTTPFailure (non-2xx answer) or the network RuntimeError
TransportErrs ==
    {Err("http", c, "none") : c \in ErrorCodes} \cup {Err("network", "none", "none")}

-----------------------------------------------------------------------------
(* sleep_backoff and retry *)

\* base_s * factor ** n. Once the product has reached max_s it is no longer
\* multiplied out: factor > 1, so every later product is above max_s too and
\* min(max_s, .) returns max_s for it.
RECURSIVE Scaled(_, _)
Scaled(base_s, n) ==
    IF n = 0 THEN base_s
    ELSE LET p == Scaled(base_s, n - 1)
         IN IF p >= MaxS THEN MaxS ELSE (p \div FactorDen) * FactorNum

sleep_backoff_offbyone(base_s, attempt) == Min(MaxS, Scaled(base_s, Max(0, attempt)))

sleep_backoff(base_s, attempt) == Min(MaxS, Scaled(base_s, Max(0, attempt - 1)))

\* retry's locals on entry (line 55, and the loop variable before its first value)
NewRetry(attempts, base_delay_s) ==
    [attempts |-> attempts, base |-> base_delay_s, i |-> 1, last_err |-> NoErr,
     sleeps |-> <<>>, status |-> "loop", val |-> "none"]

RetryExcept_nosleep(r, e) ==
    IF r.i >= r.attempts
    THEN [r EXCEPT !.last_err = e, !.status = "raised"]
    ELSE [r EXCEPT !.last_err = e, !.i = r.i + 1]

RetryExcept_firsterr(r, e) ==
    LET le == IF r.last_err = NoErr THEN e ELSE r.last_err
    IN IF r.i >= r.attempts
       THEN [r EXCEPT !.last_err = le, !.status = "raised"]
       ELSE [r EXCEPT !.last_err = le, !.i = r.i + 1,
                      !.sleeps = Append(r.sleeps, sleep_backoff(r.base, r.i))]

RetryExcept_honours(r, e) ==
    IF r.i >= r.attempts \/ e.detail = "retryable=false"
    THEN [r EXCEPT !.last_err = e, !.status = "raised"]
    ELSE [r EXCEPT !.last_err = e, !.i = r.i + 1,
                   !.sleeps = Append(r.sleeps, sleep_backoff(r.base, r.i))]

RetryExcept_giveup(r, e) == [r EXCEPT !.last_err = e, !.status = "raised"]

\* the except clause (lines 59-64) followed, on the last attempt, by lines 65-67
RetryExcept(r, e) ==
    IF r.i >= r.attempts
    THEN [r EXCEPT !.last_err = e, !.status = "raised"]
    ELSE [r EXCEPT !.last_err = e, !.i = r.i + 1,
                   !.sleeps = Append(r.sleeps, sleep_backoff(r.base, r.i))]

\* `return fn()` (line 58)
RetryReturn(r, v) == [r EXCEPT !.status = "returned", !.val = v]

-----------------------------------------------------------------------------
(* The process and the answers of the backend *)

\* longest time one request takes, in seconds
MaxReqDur == 1

\* counters of requests in the history variables saturate here
MaxCount == 3

Bump(n) == Min(MaxCount, n + 1)

\* wait_for_server's timeout_s default
ServerTimeout == 120

\* poll_job's deadline
JobDeadline == 180

\* the sleep between two polls
PollSleep == 1

BeforeDeadline_lax(t, deadline) == t <= deadline

\* `time.time() < deadline`, the loop tests of lines 210 and 223
BeforeDeadline(t, deadline) == t < deadline

\* the clock when a deadline loop is left at time t: nothing reads it after the
\* loop, and it is kept only as 0 (before the deadline) or the deadline (at or
\* after it)
LeftAt(t, deadline) == IF t >= deadline THEN deadline ELSE 0

\* what request_json raises: _request's failures, or json.loads on a body that
\* is not JSON
ReqErrs == TransportErrs \cup {Err("decode", "none", "none")}

ScenarioNames_swapped == <<"azurite", "minio", "fake-gcs">>

\* main's three run_scenario calls, in order
ScenarioNames == <<"minio", "azurite", "fake-gcs">>

Providers == <<"s3_compatible", "azure_blob", "gcp_gcs">>

\* line 483, the first statement of run_scenario(name, ...)
ScenarioLine(name) == "=== Scenario: " \o name \o " ==="

\* hello_content = f"hello from {name}\n"
HelloContent(n) == <<"hello from", ScenarioNames[n]>>

\* values of E2E_GCS_IAM the model draws, each with its .lower()
EnvLower ==
    [e \in {"", "1", "TRUE", "Yes", "y", "0", "on"} |->
        CASE e = "TRUE" -> "true" [] e = "Yes" -> "yes" [] OTHER -> e]

EnvValues == DOMAIN EnvLower

required_casesensitive == gcsEnv \in {"1", "true", "yes", "y"}

\* line 373
required == EnvLower[gcsEnv] \in {"1", "true", "yes", "y"}

IdleRetry == [NewRetry(0, 0) EXCEPT !.status = "idle"]

NoPol == [dict |-> FALSE, publicAccess |-> "absent", stored |-> "absent"]

\* no answer yet
NoEnv == [got |-> FALSE, dict |-> FALSE, bucket |-> "absent", exists |-> "absent", pol |-> NoPol]

\* a 2xx answer to GET /buckets/{bucket}/policy that is not a JSON object
NotDictEnv == [NoEnv EXCEPT !.got = TRUE]

Env(bucket, exists, pol) ==
    [got |-> TRUE, dict |-> TRUE, bucket |-> bucket, exists |-> exists, pol |-> pol]

\* `exists` is true, false, missing, or present without being a boolean
ExistsValues == {"true", "false", "absent", "nonbool"}

\* what the policy DELETE was answered: an exception of the request, or Answered2xx
Answered2xx == [kind |-> "2xx", code |-> "none", detail |-> "none", id |-> 0]

\* the answers one adapter invocation has read: its three GETs, and (del) its
\* DELETE, NoErr while none was issued; the 2xx answer of the validate endpoint
\* (validate); for the GCS adapter the failure of a step (fail) and the step it
\* occurred at (failAt)
NoObs == [initial |-> NoEnv, afterPut |-> NoEnv, afterDel |-> NoEnv, del |-> NoErr,
          validate |-> "none", fail |-> NoErr, failAt |-> "none"]

\* the history after the step `where` of the GCS adapter failed with e
Failed(o, where, e) == [o EXCEPT !.fail = e, !.failAt = where]

\* poll_job: `status` and job.get("error") once a failed or canceled status was
\* read (term, error), and history: job GETs and log requests issued (gets,
\* logs), the first status read (first), whether every status read was pending
\* or running (allPR), whether one was failed or canceled (seenFail), job GETs
\* issued after that (getsAfterFail), the status and error text of the answer
\* that was the first to say so (failSt, failErr), the log request's answer
\* (logAns), how poll_job ended (out), the status on which it returned (ret)
NoJob == [gets |-> 0, logs |-> 0, term |-> "none", error |-> "none", ret |-> "none",
          first |-> "none", allPR |-> TRUE, seenFail |-> FALSE, getsAfterFail |-> 0,
          failSt |-> "none", failErr |-> "none", logAns |-> "none", out |-> "none"]

Running == exitCode = -1

\* no multipart_form call is under way (parts: what a parser made of the body)
NoMp == [stage |-> "none", files |-> <<>>, boundary |-> "none", body |-> <<>>,
         ctype |-> <<>>, parts |-> <<>>]

\* a policy value that is no JSON object (no `policy` in the envelope, null, ...)
NoPolicy == [dict |-> FALSE, version |-> "absent", blist |-> FALSE, bindings |-> <<>>]

\* the objects the GCS adapter's variables can refer to: the policy object of
\* the initial answer, the default of line 397, the result of line 401
Refs == {"initial", "default", "copy"}

\* the adapter's documents are not under study
NoDoc == [stage |-> "none", initial |-> NoPolicy, heap |-> [r \in Refs |-> NoPolicy],
          original |-> "none", modified |-> "none", sent |-> <<>>]

InitCommon ==
    /\ operr = NoErr /\ opval = "none" /\ opCalls = 0 /\ opFails = 0
    /\ scen = 0 /\ trace = <<>> /\ obs = NoObs
    /\ uploaded = <<>> /\ downloaded = <<>>
    /\ now = 0 /\ srvErr = NoErr /\ job = NoJob /\ mp = NoMp /\ doc = NoDoc
    /\ wb = TRUE /\ exitCode = -1 /\ err = NoErr /\ log = <<>>

\* the process at the start of main()
Init ==
    /\ pc = "wait_server" /\ what = "none" /\ step = "none" /\ rt = IdleRetry
    /\ gcsEnv \in EnvValues
    /\ InitCommon

\* str(e) as far as it tells two exceptions apart
ErrText(e) == e.kind \o ":" \o e.code

Abort_exit0(e) ==
    /\ pc' = "exit" /\ exitCode' = 0 /\ err' = e
    /\ log' = Append(log, "E2E failed: " \o ErrText(e))

\* an uncaught exception: it leaves run_scenario and main, line 620 logs it, line
\* 621 raises it again and the interpreter exits with status 1
Abort(e) ==
    /\ pc' = "exit" /\ exitCode' = 1 /\ err' = e
    /\ log' = Append(log, "E2E failed: " \o ErrText(e))

\* the wrapped operation raises e on its call number n
OpRaises(e, n) ==
    /\ step' = "raised" /\ operr' = [e EXCEPT !.id = n] /\ opval' = "none"
    /\ opFails' = opFails + 1

OpReturns(v) ==
    /\ step' = "returned" /\ opval' = v /\ operr' = NoErr /\ opFails' = opFails

AtCall_norange(w) == pc = "retry" /\ what = w /\ step = "call"

\* retry is at `return fn()` of an iteration of its loop
AtCall(w) == pc = "retry" /\ what = w /\ step = "call" /\ rt.i <= rt.attempts

\* entering retry(what, fn, attempts, base_delay_s)
EnterRetry(w, attempts, base_delay_s) ==
    /\ pc' = "retry" /\ what' = w /\ step' = "call"
    /\ rt' = NewRetry(attempts, base_delay_s)
    /\ operr' = NoErr /\ opval' = "none" /\ opCalls' = 0 /\ opFails' = 0

\* retry's frame is gone once it has returned to run_scenario
LeaveRetry ==
    /\ rt' = IdleRetry /\ what' = "none" /\ step' = "none"
    /\ operr' = NoErr /\ opval' = "none" /\ opCalls' = 0 /\ opFails' = 0

-----------------------------------------------------------------------------
(* retry *)

\* RuntimeError(f"{what} failed"), line 66
RetryFailed(label) == Err("retry_failed", label, "none")

\* the loop's range is empty (attempts <= 0): lines 65-66
RetryEmpty ==
    /\ pc = "retry" /\ step = "call" /\ rt.i > rt.attempts
    /\ rt' = [rt EXCEPT !.status = "raised"]
    /\ Abort(RetryFailed(what))
    /\ UNCHANGED <<what, step, operr, opval, opCalls, opFails, svars, tvars, gcsEnv, mp, doc, wb>>

\* the wrapped operation raised: lines 59-64, then lines 65-67 after the break
RetryCatch ==
    /\ pc = "retry" /\ step = "raised"
    /\ rt' = RetryExcept(rt, operr)
    /\ IF rt'.status = "raised"
       THEN /\ Abort(rt'.last_err)
            /\ UNCHANGED <<step, operr, trace, obs>>
       ELSE /\ step' = "call" /\ operr' = NoErr
            /\ trace' = <<>> /\ obs' = NoObs
            /\ UNCHANGED <<pc, evars>>
    /\ UNCHANGED <<what, opval, opCalls, opFails, scen, uploaded, downloaded,
                   tvars, gcsEnv, mp, doc, wb>>

-----------------------------------------------------------------------------
(* A caller of retry whose operation fails or succeeds arbitrarily *)

\* the failures the operation raises: a network error, and HTTPFailures whose
\* envelope has no normalizedError, one with retryable false, one with retryable
\* true, and with another status and a Retry-After header
OpErrs ==
    {Err("network", "none", "none"),
     Err("http", "internal", "none"),
     Err("http", "internal", "retryable=false"),
     Err("http", "internal", "retryable=true"),
     Err("http", "none", "status=429 retryAfter=30")}

OpValues == {"v1", "v2"}

InitRetry ==
    /\ pc = "retry" /\ what = "op" /\ step = "call"
    /\ \E a \in (-1)..MaxAttempts, b \in Bases : rt = NewRetry(a, Secs(b))
    /\ gcsEnv = ""
    /\ InitCommon

\* fn() of retry's caller
OpCall ==
    /\ AtCall("op")
    /\ opCalls' = opCalls + 1
    /\ \/ \E e \in OpErrs : OpRaises(e, opCalls + 1)
       \/ \E v \in OpValues : OpReturns(v)
    /\ UNCHANGED <<pc, what, rt, svars, tvars, gcsEnv, mp, doc, wb, evars>>

\* retry returns fn()'s value to its caller, which ends
OpReturn ==
    /\ pc = "retry" /\ what = "op" /\ step = "returned"
    /\ rt' = RetryReturn(rt, opval)
    /\ pc' = "exit" /\ exitCode' = 0
    /\ UNCHANGED <<what, step, operr, opval, opCalls, opFails, svars, tvars, gcsEnv, mp, doc, wb, err, log>>

NextRetry == OpCall \/ OpReturn \/ RetryCatch \/ RetryEmpty

SpecRetry == InitRetry /\ [][NextRetry]_vars

-----------------------------------------------------------------------------
(* wait_for_server *)

SleepAfterPoll_nosleep(t) == t

\* the clock after the sleep of line 217
SleepAfterPoll(t) == t + PollSleep

\* one iteration of the loop, lines 210-217
WaitServerPoll ==
    /\ pc = "wait_server" /\ BeforeDeadline(now, ServerTimeout)
    /\ \/ \* GET /meta answers a JSON object: lines 213-214, then main's first
          \* run_scenario call
          \E d \in 0..MaxReqDur :
             /\ pc' = "create_profile" /\ scen' = 1 /\ now' = LeftAt(now + d, ServerTimeout)
             /\ srvErr' = NoErr
             /\ log' = Append(log, ScenarioLine(ScenarioNames[1]))
       \/ \* the request fails, or meta.get raises on a body that is no object
          \E d \in 0..MaxReqDur, e \in ReqErrs \cup {Err("protocol", "meta", "none")} :
             /\ srvErr' = e /\ now' = SleepAfterPoll(now + d)
             /\ UNCHANGED <<pc, scen, log>>
    /\ UNCHANGED <<rvars, trace, obs, uploaded, downloaded, job, gcsEnv, mp, doc, wb, exitCode, err>>

\* the error of line 218: its message holds timeout_s and last_err
ServerTimeoutError(last_err) == Err("server_timeout", "timeout_s", ErrText(last_err))

\* line 218
WaitServerTimeout ==
    /\ pc = "wait_server" /\ ~BeforeDeadline(now, ServerTimeout)
    /\ Abort(ServerTimeoutError(srvErr))
    /\ UNCHANGED <<rvars, svars, tvars, gcsEnv, mp, doc, wb>>

-----------------------------------------------------------------------------
(* run_scenario up to the policy adapter *)

ProfileTestAttempts == 15

EnsureAttempts == 10

\* attempts of the retry around the policy adapter, lines 513-518
PolicyAttempts(provider) == IF provider = "gcp_gcs" THEN 3 ELSE 6

\* base_delay_s of the profile test, in tenths of a second
ProfileTestBase == 10

\* base_delay_s of bucket-ensure and of the policy adapters
EnsureBase == 8

\* lines 486-495
CreateProfile ==
    /\ pc = "create_profile"
    /\ \/ \E e \in ReqErrs : Abort(e) /\ wb' = FALSE /\ UNCHANGED rvars
       \/ \* no object, or no "id" in it
          Abort(Err("protocol", "profile", "none")) /\ wb' = FALSE /\ UNCHANGED rvars
       \/ /\ EnterRetry("profile_test", ProfileTestAttempts, Secs(ProfileTestBase))
          /\ UNCHANGED <<evars, wb>>
    /\ now' = 0
    /\ UNCHANGED <<svars, srvErr, job, gcsEnv, mp, doc>>

\* the lambda of line 492
ProfileTestCall ==
    /\ AtCall("profile_test")
    /\ opCalls' = opCalls + 1
    /\ \/ \E e \in ReqErrs : OpRaises(e, opCalls + 1) /\ wb' = FALSE
       \/ \E v \in {"ok_true", "ok_false", "ok_absent", "notdict"} :
             OpReturns(v) /\ wb' = (wb /\ v = "ok_true")
    /\ UNCHANGED <<pc, what, rt, svars, tvars, gcsEnv, mp, doc, evars>>

\* retry returns the answer: lines 496-509
ProfileTestReturn ==
    /\ pc = "retry" /\ what = "profile_test" /\ step = "returned"
    /\ LET test == RetryReturn(rt, opval).val
       IN IF test = "ok_true"
          THEN /\ EnterRetry("ensure_bucket", EnsureAttempts, Secs(EnsureBase))
               /\ UNCHANGED evars
          ELSE /\ Abort(IF test = "notdict" THEN Err("protocol", "profile_test", "none")
                        ELSE Err("assertion", "profile_test", "none"))
               /\ LeaveRetry
    /\ UNCHANGED <<svars, tvars, gcsEnv, mp, doc, wb>>

\* POST /buckets is rejected for a name that is taken: an HTTPFailure like any other
BucketExists == Err("http", "bucket_exists", "none")

\* ensure_bucket, line 501
EnsureCreate ==
    /\ AtCall("ensure_bucket")
    /\ opCalls' = opCalls + 1
    /\ \/ \E e \in ReqErrs \cup {BucketExists} : OpRaises(e, opCalls + 1) /\ wb' = FALSE
       \/ step' = "eb_list" /\ UNCHANGED <<operr, opval, opFails, wb>>
    /\ UNCHANGED <<pc, what, rt, svars, tvars, gcsEnv, mp, doc, evars>>

\* answers to GET /buckets: no list, a list without the bucket's name, one with it
BucketLists == {"notlist", "without", "with"}

\* ensure_bucket, lines 502-507
EnsureList ==
    /\ pc = "retry" /\ what = "ensure_bucket" /\ step = "eb_list"
    /\ \/ \E e \in ReqErrs : OpRaises(e, opCalls) /\ wb' = FALSE
       \/ \E l \in BucketLists :
             /\ wb' = (wb /\ l = "with")
             /\ CASE l = "notlist" -> OpRaises(Err("protocol", "buckets", "none"), opCalls)
                  [] l = "without" ->
                       OpRaises(Err("assertion", "bucket_not_found", "none"), opCalls)
                  [] OTHER -> OpReturns("none")
    /\ UNCHANGED <<pc, what, rt, opCalls, svars, tvars, gcsEnv, mp, doc, evars>>

\* retry returns: lines 510-518
EnsureReturn ==
    /\ pc = "retry" /\ what = "ensure_bucket" /\ step = "returned"
    /\ EnterRetry("policy", PolicyAttempts(Providers[scen]), Secs(EnsureBase))
    /\ trace' = <<>> /\ obs' = NoObs
    /\ UNCHANGED <<scen, uploaded, downloaded, tvars, gcsEnv, mp, doc, wb, evars>>

-----------------------------------------------------------------------------
(* exercise_bucket_policy: the S3 adapter *)

\* answers to the initial GET /buckets/{bucket}/policy of the S3 and Azure
\* adapters: no object, the envelope of a bucket with or without a policy, one
\* naming another bucket, one without `exists`
InspectEnvs ==
    {NotDictEnv, Env("same", "true", NoPol), Env("same", "false", NoPol),
     Env("other", "true", NoPol), Env("same", "absent", NoPol)}

\* answers to GET /buckets/{bucket}/policy as far as this adapter's
\* verifications read them
S3Envs == {NotDictEnv} \cup {Env(b, x, NoPol) : b \in {"same", "other"}, x \in ExistsValues}

\* answers of the validate endpoint: {ok: false}, or anything else
ValidateAnswers == {"ok_false", "ok"}

ValidateRejects_never(v) == FALSE

\* `isinstance(v, dict) and v.get("ok") is False`, lines 279, 329 and 437
ValidateRejects(v) == v = "ok_false"

InPolicy(provider, st) ==
    pc = "retry" /\ what = "policy" /\ Providers[scen] = provider /\ step = st

\* the answers of a correctly behaving backend to the adapter's three GETs
CorrectInitial(r) == r.dict /\ r.bucket = "same" /\ r.exists \in {"true", "false"}

CorrectS3AfterPut(r) == r.dict /\ r.bucket = "same" /\ r.exists = "true"

CorrectS3AfterDelete(r) == r.dict /\ r.bucket = "same" /\ r.exists = "false"

\* the checks of lines 257-262 pass
S3InitialOk(r) == r.dict /\ r.bucket = "same" /\ r.exists # "absent"

S3AfterPutOk_loose(r) == r.dict /\ r.exists # "false"

\* the check of line 287 passes
S3AfterPutOk(r) == r.dict /\ r.exists = "true"

\* the check of line 295 passes
S3AfterDeleteOk(r) == r.dict /\ r.exists = "false"

\* lines 255-262
S3GetInitial ==
    /\ AtCall("policy") /\ Providers[scen] = "s3_compatible"
    /\ opCalls' = opCalls + 1
    /\ trace' = <<"GET">>
    /\ \/ \E e \in ReqErrs : OpRaises(e, opCalls + 1) /\ wb' = FALSE /\ UNCHANGED obs
       \/ \E r \in InspectEnvs :
             /\ obs' = [obs EXCEPT !.initial = r]
             /\ IF S3InitialOk(r)
                THEN step' = "s3_validate" /\ UNCHANGED <<operr, opval, opFails>>
                ELSE OpRaises(Err("protocol", "policy_envelope", "none"), opCalls + 1)
             /\ wb' = (wb /\ CorrectInitial(r))
    /\ UNCHANGED <<pc, what, rt, scen, uploaded, downloaded, tvars, gcsEnv, mp, doc, evars>>

\* lines 277-280
S3Validate ==
    /\ InPolicy("s3_compatible", "s3_validate")
    /\ trace' = Append(trace, "VALIDATE")
    /\ \/ \E e \in ReqErrs : OpRaises(e, opCalls) /\ wb' = FALSE /\ UNCHANGED obs
       \/ \E v \in ValidateAnswers :
             /\ wb' = (wb /\ v = "ok")
             /\ obs' = [obs EXCEPT !.validate = v]
             /\ IF ValidateRejects(v)
                THEN OpRaises(Err("assertion", "validate", "none"), opCalls)
                ELSE step' = "s3_put" /\ UNCHANGED <<operr, opval, opFails>>
    /\ UNCHANGED <<pc, what, rt, opCalls, scen, uploaded, downloaded, tvars, gcsEnv, mp, doc, evars>>

\* lines 282-283
S3Put ==
    /\ InPolicy("s3_compatible", "s3_put")
    /\ trace' = Append(trace, "PUT")
    /\ \/ \E e \in ReqErrs : OpRaises(e, opCalls) /\ wb' = FALSE
       \/ step' = "s3_get_after_put" /\ UNCHANGED <<operr, opval, opFails, wb>>
    /\ UNCHANGED <<pc, what, rt, opCalls, scen, obs, uploaded, downloaded, tvars, gcsEnv, mp, doc, evars>>

\* lines 285-288
S3GetAfterPut ==
    /\ InPolicy("s3_compatible", "s3_get_after_put")
    /\ trace' = Append(trace, "GET")
    /\ \/ \E e \in ReqErrs : OpRaises(e, opCalls) /\ wb' = FALSE /\ UNCHANGED obs
       \/ \E r \in S3Envs :
             /\ obs' = [obs EXCEPT !.afterPut = r]
             /\ wb' = (wb /\ CorrectS3AfterPut(r))
             /\ IF S3AfterPutOk(r)
                THEN step' = "s3_delete" /\ UNCHANGED <<operr, opval, opFails>>
                ELSE OpRaises(Err("assertion", "after_put", "none"), opCalls)
    /\ UNCHANGED <<pc, what, rt, opCalls, scen, uploaded, downloaded, tvars, gcsEnv, mp, doc, evars>>

\* lines 290-291
S3Delete ==
    /\ InPolicy("s3_compatible", "s3_delete")
    /\ trace' = Append(trace, "DELETE")
    /\ \/ \E e \in ReqErrs : OpRaises(e, opCalls) /\ wb' = FALSE
       \/ step' = "s3_get_after_delete" /\ UNCHANGED <<operr, opval, opFails, wb>>
    /\ UNCHANGED <<pc, what, rt, opCalls, scen, obs, uploaded, downloaded, tvars, gcsEnv, mp, doc, evars>>

\* lines 293-298
S3GetAfterDelete ==
    /\ InPolicy("s3_compatible", "s3_get_after_delete")
    /\ trace' = Append(trace, "GET")
    /\ \/ \E e \in ReqErrs : OpRaises(e, opCalls) /\ wb' = FALSE /\ UNCHANGED obs
       \/ \E r \in S3Envs :
             /\ obs' = [obs EXCEPT !.afterDel = r]
             /\ wb' = (wb /\ CorrectS3AfterDelete(r))
             /\ IF S3AfterDeleteOk(r)
                THEN OpReturns("none")
                ELSE OpRaises(Err("assertion", "after_delete", "none"), opCalls)
    /\ UNCHANGED <<pc, what, rt, opCalls, scen, uploaded, downloaded, tvars, gcsEnv, mp, doc, evars>>

-----------------------------------------------------------------------------
(* exercise_azure_container_policy: the Azure adapter *)

\* storedAccessPolicies: missing (None), not a list, [], a list holding an entry
\* with id "e2e-read", a non-empty list holding none
StoredValues == {"absent", "notlist", "empty", "has_e2e", "other"}

\* publicAccess: "container", "private", or missing
AccessValues == {"container", "private", "absent"}

AzPols ==
    {NoPol} \cup {[dict |-> TRUE, publicAccess |-> a, stored |-> st] :
                     a \in AccessValues, st \in StoredValues}

AzEnvs == {NotDictEnv} \cup {Env("same", x, p) : x \in ExistsValues, p \in AzPols}

AzAfterPutOk_noexists(r) ==
    r.dict /\ r.pol.dict /\ r.pol.publicAccess = "container" /\ r.pol.stored = "has_e2e"

\* the checks of lines 337-346 pass
AzAfterPutOk(r) ==
    /\ r.dict /\ r.exists = "true"
    /\ r.pol.dict
    /\ r.pol.publicAccess = "container"
    /\ r.pol.stored = "has_e2e"

AzAfterResetOk_noaccess(r) ==
    r.dict /\ r.pol.dict /\ r.pol.stored # "has_e2e" /\ r.pol.stored # "other"

\* the checks of lines 353-361 pass
AzAfterResetOk(r) ==
    /\ r.dict /\ r.pol.dict
    /\ r.pol.publicAccess = "private"
    /\ r.pol.stored # "has_e2e" /\ r.pol.stored # "other"

\* the answers of a correctly behaving backend after the PUT and after the reset
CorrectAzAfterPut(r) ==
    /\ r.dict /\ r.bucket = "same" /\ r.exists = "true"
    /\ r.pol = [dict |-> TRUE, publicAccess |-> "container", stored |-> "has_e2e"]

CorrectAzAfterReset(r) ==
    /\ r.dict /\ r.bucket = "same" /\ r.exists = "false"
    /\ r.pol = [dict |-> TRUE, publicAccess |-> "private", stored |-> "empty"]

\* lines 312-315
AzGetInitial ==
    /\ AtCall("policy") /\ Providers[scen] = "azure_blob"
    /\ opCalls' = opCalls + 1
    /\ trace' = <<"GET">>
    /\ \/ \E e \in ReqErrs : OpRaises(e, opCalls + 1) /\ wb' = FALSE /\ UNCHANGED obs
       \/ \E r \in InspectEnvs :
             /\ obs' = [obs EXCEPT !.initial = r]
             /\ IF r.dict
                THEN step' = "az_validate" /\ UNCHANGED <<operr, opval, opFails>>
                ELSE OpRaises(Err("protocol", "policy_envelope", "none"), opCalls + 1)
             /\ wb' = (wb /\ CorrectInitial(r))
    /\ UNCHANGED <<pc, what, rt, scen, uploaded, downloaded, tvars, gcsEnv, mp, doc, evars>>

\* lines 327-330
AzValidate ==
    /\ InPolicy("azure_blob", "az_validate")
    /\ trace' = Append(trace, "VALIDATE")
    /\ \/ \E e \in ReqErrs : OpRaises(e, opCalls) /\ wb' = FALSE /\ UNCHANGED obs
       \/ \E v \in ValidateAnswers :
             /\ wb' = (wb /\ v = "ok")
             /\ obs' = [obs EXCEPT !.validate = v]
             /\ IF ValidateRejects(v)
                THEN OpRaises(Err("assertion", "validate", "none"), opCalls)
                ELSE step' = "az_put" /\ UNCHANGED <<operr, opval, opFails>>
    /\ UNCHANGED <<pc, what, rt, opCalls, scen, uploaded, downloaded, tvars, gcsEnv, mp, doc, evars>>

\* lines 332-333
AzPut ==
    /\ InPolicy("azure_blob", "az_put")
    /\ trace' = Append(trace, "PUT")
    /\ \/ \E e \in ReqErrs : OpRaises(e, opCalls) /\ wb' = FALSE
       \/ step' = "az_get_after_put" /\ UNCHANGED <<operr, opval, opFails, wb>>
    /\ UNCHANGED <<pc, what, rt, opCalls, scen, obs, uploaded, downloaded, tvars, gcsEnv, mp, doc, evars>>

\* lines 335-346
AzGetAfterPut ==
    /\ InPolicy("azure_blob", "az_get_after_put")
    /\ trace' = Append(trace, "GET")
    /\ \/ \E e \in ReqErrs : OpRaises(e, opCalls) /\ wb' = FALSE /\ UNCHANGED obs
       \/ \E r \in AzEnvs :
             /\ obs' = [obs EXCEPT !.afterPut = r]
             /\ wb' = (wb /\ CorrectAzAfterPut(r))
             /\ IF AzAfterPutOk(r)
                THEN step' = "az_reset" /\ UNCHANGED <<operr, opval, opFails>>
                ELSE OpRaises(Err("assertion", "after_put", "none"), opCalls)
    /\ UNCHANGED <<pc, what, rt, opCalls, scen, uploaded, downloaded, tvars, gcsEnv, mp, doc, evars>>

\* lines 348-349
AzReset ==
    /\ InPolicy("azure_blob", "az_reset")
    /\ trace' = Append(trace, "DELETE")
    /\ \/ \E e \in ReqErrs : OpRaises(e, opCalls) /\ wb' = FALSE
       \/ step' = "az_get_after_reset" /\ UNCHANGED <<operr, opval, opFails, wb>>
    /\ UNCHANGED <<pc, what, rt, opCalls, scen, obs, uploaded, downloaded, tvars, gcsEnv, mp, doc, evars>>

\* lines 351-363
AzGetAfterReset ==
    /\ InPolicy("azure_blob", "az_get_after_reset")
    /\ trace' = Append(trace, "GET")
    /\ \/ \E e \in ReqErrs : OpRaises(e, opCalls) /\ wb' = FALSE /\ UNCHANGED obs
       \/ \E r \in AzEnvs :
             /\ obs' = [obs EXCEPT !.afterDel = r]
             /\ wb' = (wb /\ CorrectAzAfterReset(r))
             /\ IF AzAfterResetOk(r)
                THEN OpReturns("none")
                ELSE OpRaises(Err("assertion", "after_reset", "none"), opCalls)
    /\ UNCHANGED <<pc, what, rt, opCalls, scen, uploaded, downloaded, tvars, gcsEnv, mp, doc, evars>>

-----------------------------------------------------------------------------
(* exercise_gcs_iam_policy: the GCS adapter *)

GcsPol == [dict |-> TRUE, publicAccess |-> "absent", stored |-> "absent"]

GcsEnvs == {NotDictEnv} \cup {Env("same", x, p) : x \in {"true", "false"}, p \in {NoPol, GcsPol}}

\* answers to the initial GET of the GCS adapter: those, and envelopes naming
\* another bucket or lacking `exists`
GcsInspectEnvs == GcsEnvs \cup {Env("other", "true", GcsPol), Env("same", "absent", GcsPol)}

\* the answer of a correctly behaving backend after the PUT
CorrectGcsAfterPut(r) == r.dict /\ r.exists = "true" /\ r.pol.dict

\* the answer of a correctly behaving backend to the DELETE
CorrectGcsDelete(e) == e.kind = "http" /\ e.code = "bucket_policy_delete_unsupported"

skip_alwaysraise(req, e) == "raise"

\* skip(where, e), lines 375-383: re-raise in strict mode, else log
skip(req, e) == IF req THEN "raise" ELSE "logged"

\* `skip(where, e); return` inside the adapter
GcsSkip(e, n) ==
    IF skip(required, e) = "raise" THEN OpRaises(e, n) ELSE OpReturns("skipped")

\* lines 385-393 (the candidate document of lines 395-432 is built here)
GcsGetInitial ==
    /\ AtCall("policy") /\ Providers[scen] = "gcp_gcs"
    /\ opCalls' = opCalls + 1
    /\ trace' = <<"GET">>
    /\ \/ \E e \in ReqErrs :
             GcsSkip(e, opCalls + 1) /\ wb' = FALSE /\ obs' = Failed(obs, "get", e)
       \/ \E r \in GcsInspectEnvs :
             /\ obs' = [obs EXCEPT !.initial = r]
             /\ IF r.dict
                THEN step' = "gcs_validate" /\ UNCHANGED <<operr, opval, opFails>>
                ELSE OpRaises(Err("protocol", "policy_envelope", "none"), opCalls + 1)
             /\ wb' = (wb /\ CorrectInitial(r))
    /\ UNCHANGED <<pc, what, rt, scen, uploaded, downloaded, tvars, gcsEnv, mp, doc, evars>>

\* lines 434-441
GcsValidate ==
    /\ InPolicy("gcp_gcs", "gcs_validate")
    /\ trace' = Append(trace, "VALIDATE")
    /\ \/ \E e \in ReqErrs :
             GcsSkip(e, opCalls) /\ wb' = FALSE /\ obs' = Failed(obs, "validate", e)
       \/ \E v \in ValidateAnswers :
             /\ wb' = (wb /\ v = "ok")
             /\ IF ValidateRejects(v)
                THEN /\ GcsSkip(Err("assertion", "validate", "none"), opCalls)
                     /\ obs' = Failed([obs EXCEPT !.validate = v], "validate",
                                      Err("assertion", "validate", "none"))
                ELSE /\ step' = "gcs_put" /\ obs' = [obs EXCEPT !.validate = v]
                     /\ UNCHANGED <<operr, opval, opFails>>
    /\ UNCHANGED <<pc, what, rt, opCalls, scen, uploaded, downloaded, tvars, gcsEnv, mp, doc, evars>>

\* lines 443-448
GcsPut ==
    /\ InPolicy("gcp_gcs", "gcs_put")
    /\ trace' = Append(trace, "PUT")
    /\ \/ \E e \in ReqErrs :
             GcsSkip(e, opCalls) /\ wb' = FALSE /\ obs' = Failed(obs, "put", e)
       \/ step' = "gcs_get_after_put" /\ UNCHANGED <<operr, opval, opFails, wb, obs>>
    /\ UNCHANGED <<pc, what, rt, opCalls, scen, uploaded, downloaded, tvars, gcsEnv, mp, doc, evars>>

\* lines 450-459
GcsGetAfterPut ==
    /\ InPolicy("gcp_gcs", "gcs_get_after_put")
    /\ trace' = Append(trace, "GET")
    /\ \/ \E e \in ReqErrs :
             GcsSkip(e, opCalls) /\ wb' = FALSE /\ obs' = Failed(obs, "get-after-put", e)
       \/ \E r \in GcsEnvs :
             /\ obs' = [obs EXCEPT !.afterPut = r]
             /\ wb' = (wb /\ CorrectGcsAfterPut(r))
             /\ IF r.dict /\ r.pol.dict
                THEN step' = "gcs_restore" /\ UNCHANGED <<operr, opval, opFails>>
                ELSE OpRaises(Err("assertion", "after_put", "none"), opCalls)
    /\ UNCHANGED <<pc, what, rt, opCalls, scen, uploaded, downloaded, tvars, gcsEnv, mp, doc, evars>>

RestoreFailure_ignored(req) == "ignored"

\* the handler of lines 465-469: raise in strict mode, else log
RestoreFailure(req) == IF req THEN "raise" ELSE "ignored"

\* lines 461-469
GcsRestore ==
    /\ InPolicy("gcp_gcs", "gcs_restore")
    /\ trace' = Append(trace, "PUT")
    /\ \/ \E e \in ReqErrs :
             /\ wb' = FALSE /\ obs' = Failed(obs, "restore", e)
             /\ IF RestoreFailure(required) = "raise"
                THEN OpRaises(e, opCalls)
                ELSE step' = "gcs_delete" /\ UNCHANGED <<operr, opval, opFails>>
       \/ step' = "gcs_delete" /\ UNCHANGED <<operr, opval, opFails, wb, obs>>
    /\ UNCHANGED <<pc, what, rt, opCalls, scen, uploaded, downloaded, tvars, gcsEnv, mp, doc, evars>>

DeleteCodeOk_any(code) == TRUE

\* the test of line 477 passes
DeleteCodeOk(code) == code = "bucket_policy_delete_unsupported"

\* lines 471-480
GcsDelete ==
    /\ InPolicy("gcp_gcs", "gcs_delete")
    /\ trace' = Append(trace, "DELETE")
    /\ \/ \E e \in ReqErrs :
             /\ obs' = [obs EXCEPT !.del = e]
             /\ wb' = (wb /\ CorrectGcsDelete(e))
             /\ IF e.kind = "http"
                THEN IF DeleteCodeOk(e.code)
                     THEN OpReturns("none")
                     ELSE OpRaises(Err("assertion", "delete_code", e.code), opCalls)
                ELSE OpRaises(e, opCalls)
       \/ \* the DELETE is answered 2xx: line 475
          /\ obs' = [obs EXCEPT !.del = Answered2xx]
          /\ OpRaises(Err("assertion", "delete_succeeded", "none"), opCalls) /\ wb' = FALSE
    /\ UNCHANGED <<pc, what, rt, opCalls, scen, uploaded, downloaded, tvars, gcsEnv, mp, doc, evars>>

\* the policy adapter returned and retry returns: lines 514-520
PolicyReturn ==
    /\ pc = "retry" /\ what = "policy" /\ step = "returned"
    /\ LeaveRetry
    /\ pc' = "upload_create"
    /\ trace' = <<>> /\ obs' = NoObs
    /\ UNCHANGED <<scen, uploaded, downloaded, tvars, gcsEnv, mp, doc, wb, evars>>

-----------------------------------------------------------------------------
(* run_scenario after the policy adapter, and poll_job *)

\* lines 520-522
UploadCreate ==
    /\ pc = "upload_create"
    /\ \/ \E e \in ReqErrs : Abort(e) /\ wb' = FALSE
       \/ \* no "uploadId" in the answer
          Abort(Err("protocol", "upload", "none")) /\ wb' = FALSE
       \/ pc' = "upload_files" /\ UNCHANGED <<evars, wb>>
    /\ UNCHANGED <<rvars, svars, tvars, gcsEnv, mp, doc>>

\* lines 524-535
UploadFiles ==
    /\ pc = "upload_files"
    /\ uploaded' = HelloContent(scen)
    /\ \/ \E e \in TransportErrs : Abort(e) /\ wb' = FALSE
       \/ pc' = "commit" /\ UNCHANGED <<evars, wb>>
    /\ UNCHANGED <<rvars, scen, trace, obs, downloaded, tvars, gcsEnv, mp, doc>>

\* lines 537-540 and poll_job's line 222
Commit ==
    /\ pc = "commit"
    /\ \/ \E e \in ReqErrs : Abort(e) /\ wb' = FALSE /\ UNCHANGED <<now, job>>
       \/ \* no "jobId" in the answer
          Abort(Err("protocol", "commit", "none")) /\ wb' = FALSE /\ UNCHANGED <<now, job>>
       \/ pc' = "poll_job" /\ now' = 0 /\ job' = NoJob /\ UNCHANGED <<evars, wb>>
    /\ UNCHANGED <<rvars, svars, srvErr, gcsEnv, mp, doc>>

\* values of a job's "status": the five of the API, a missing one, an unknown one
JobStatuses == {"pending", "running", "succeeded", "failed", "canceled", "absent", "unknown"}

\* values of a job's "error"
JobErrors == {"absent", "boom"}

\* what the loop of lines 223-242 does on a status: return, go on to the logs, sleep
PollBranch_failedloops(st) ==
    IF st = "succeeded" THEN "return"
    ELSE IF st = "canceled" THEN "fail"
    ELSE "sleep"

PollBranch_strict(st) ==
    IF st = "succeeded" THEN "return"
    ELSE IF st \in {"pending", "running"} THEN "sleep"
    ELSE "fail"

PollBranch(st) ==
    IF st = "succeeded" THEN "return"
    ELSE IF st \in {"failed", "canceled"} THEN "fail"
    ELSE "sleep"

\* the clock after the request and the sleep of one iteration
PollTick_frozen(t, d) == t

PollTick(t, d) == t + d + PollSleep

\* the history of poll_job after one more job GET, which read status st and
\* error text et
Polled(j, st, et) ==
    LET fails == st \in {"failed", "canceled"} /\ ~j.seenFail
    IN [j EXCEPT !.gets = Bump(@),
                 !.first = IF j.gets = 0 THEN st ELSE @,
                 !.allPR = (@ /\ st \in {"pending", "running"}),
                 !.seenFail = (@ \/ fails),
                 !.failSt = IF fails THEN st ELSE @,
                 !.failErr = IF fails THEN et ELSE @,
                 !.getsAfterFail = IF j.seenFail THEN Bump(@) ELSE @]

PollCatches_transport(e) == e.kind \in {"http", "network"}

\* whether poll_job handles an exception of its job GET: line 224 is inside no
\* try statement
PollCatches(e) == FALSE

\* one job GET of the loop: lines 223-228 and 242
PollJobGet ==
    /\ pc = "poll_job" /\ BeforeDeadline(now, JobDeadline)
    /\ \E d \in 0..MaxReqDur :
       \/ \E e \in ReqErrs \cup {Err("protocol", "job", "none")} :
             /\ wb' = FALSE
             /\ IF PollCatches(e)
                THEN /\ now' = PollTick(now, d) /\ UNCHANGED <<pc, evars>>
                     /\ job' = Polled(job, "none", "none")
                ELSE /\ Abort(e) /\ now' = 0
                     /\ job' = [Polled(job, "none", "none") EXCEPT !.out = "propagated"]
       \/ \E st \in JobStatuses, et \in JobErrors :
             /\ wb' = (wb /\ st \in {"pending", "running", "succeeded"})
             /\ CASE PollBranch(st) = "return" ->
                       /\ pc' = "download" /\ now' = LeftAt(now + d, JobDeadline)
                       /\ UNCHANGED evars
                       /\ job' = [Polled(job, st, et) EXCEPT !.out = "returned", !.ret = st]
                  [] PollBranch(st) = "fail" ->
                       /\ pc' = "poll_logs" /\ now' = LeftAt(now + d, JobDeadline)
                       /\ UNCHANGED evars
                       /\ job' = [Polled(job, st, et) EXCEPT !.term = st, !.error = et]
                  [] OTHER ->
                       /\ now' = PollTick(now, d) /\ UNCHANGED <<pc, evars>>
                       /\ job' = Polled(job, st, et)
    /\ UNCHANGED <<rvars, svars, srvErr, gcsEnv, mp, doc>>

\* the error raised at line 241
JobFailure_statusonly(j) == Err("job_failed", j.term, "none")

JobFailure(j) == Err("job_failed", j.term, j.error)

\* what the log request of lines 230-239 answers: text, blank text, or a failure
LogAnswers == {"text", "blank", "failed"}

\* lines 229-241
PollJobLogs ==
    /\ pc = "poll_logs"
    /\ \E a \in LogAnswers :
          /\ job' = [job EXCEPT !.logs = Bump(@), !.logAns = a, !.out = "job_failed"]
          /\ Abort(JobFailure(job))
    /\ UNCHANGED <<rvars, svars, now, srvErr, gcsEnv, mp, doc, wb>>

\* line 243
PollJobTimeout ==
    /\ pc = "poll_job" /\ ~BeforeDeadline(now, JobDeadline)
    /\ job' = [job EXCEPT !.out = "job_timeout"]
    /\ Abort(Err("job_timeout", "180s", "none"))
    /\ now' = 0
    /\ UNCHANGED <<rvars, svars, srvErr, gcsEnv, mp, doc, wb>>

DownloadMatches_any(downloadedBytes, hello_content) == TRUE

\* the comparison of line 548
DownloadMatches(downloadedBytes, hello_content) == downloadedBytes = hello_content

\* lines 543-550
Download ==
    /\ pc = "download"
    /\ \/ \E e \in TransportErrs : Abort(e) /\ wb' = FALSE /\ UNCHANGED downloaded
       \/ \E b \in {HelloContent(scen), <<"other">>} :
             /\ downloaded' = b
             /\ wb' = (wb /\ b = uploaded)
             /\ IF DownloadMatches(b, HelloContent(scen))
                THEN pc' = "scenario_done" /\ UNCHANGED evars
                ELSE Abort(Err("assertion", "download", "none"))
    /\ now' = 0
    /\ UNCHANGED <<rvars, scen, trace, obs, uploaded, srvErr, job, gcsEnv, mp, doc>>

\* run_scenario returns to main: the next call, or lines 612-613
ScenarioReturn ==
    /\ pc = "scenario_done"
    /\ IF scen < Len(ScenarioNames)
       THEN /\ pc' = "create_profile" /\ scen' = scen + 1
            /\ uploaded' = <<>> /\ downloaded' = <<>>
            /\ job' = NoJob /\ now' = 0 /\ wb' = TRUE
            /\ log' = Append(log, ScenarioLine(ScenarioNames[scen + 1]))
            /\ UNCHANGED <<exitCode, err>>
       ELSE /\ pc' = "exit" /\ exitCode' = 0
            /\ log' = Append(log, "All E2E scenarios passed")
            /\ UNCHANGED <<scen, uploaded, downloaded, job, now, wb, err>>
    /\ UNCHANGED <<rvars, trace, obs, srvErr, gcsEnv, mp, doc>>

-----------------------------------------------------------------------------
(* The process *)

Next ==
    \/ WaitServerPoll \/ WaitServerTimeout
    \/ CreateProfile \/ ProfileTestCall \/ ProfileTestReturn
    \/ EnsureCreate \/ EnsureList \/ EnsureReturn
    \/ RetryCatch
    \/ S3GetInitial \/ S3Validate \/ S3Put \/ S3GetAfterPut \/ S3Delete \/ S3GetAfterDelete
    \/ AzGetInitial \/ AzValidate \/ AzPut \/ AzGetAfterPut \/ AzReset \/ AzGetAfterReset
    \/ GcsGetInitial \/ GcsValidate \/ GcsPut \/ GcsGetAfterPut \/ GcsRestore \/ GcsDelete
    \/ PolicyReturn
    \/ UploadCreate \/ UploadFiles \/ Commit
    \/ PollJobGet \/ PollJobLogs \/ PollJobTimeout
    \/ Download \/ ScenarioReturn

Spec == Init /\ [][Next]_vars

\* every step of the process is a request that answers within its timeout, a
\* sleep that ends, or a computation: the process never stops while it can step
FairSpec == Spec /\ WF_vars(Next)

-----------------------------------------------------------------------------
(* multipart_form, and a caller that hands its result to a multipart parser *)

\* Byte strings are sequences of tokens: one token stands for a run of bytes
\* that the encoder and a parser never split ("CRLF" for \r\n, "--", a
\* boundary value, "DQUOTE" for the double quote, a header text, "x" for any
\* other byte).

\* most files in the list handed to multipart_form
MaxFiles == 2

\* most tokens in the contents of all files of the list together
MaxBytes == 3

\* values uuid.uuid4().hex takes
Boundaries == {"b1", "b2"}

\* file names: a plain one, one with a line break in it, one with an empty line
FileNames == {<<"h">>, <<"h", "CRLF", "h">>, <<"h", "CRLF", "CRLF">>}

\* tokens of file contents: among the byte strings a content can hold are
\* those the encoder writes itself
ContentBytes == {"x", "CRLF", "--", "b1"}

\* the text of lines 195-196 up to the file name
Disposition == "Content-Disposition: form-data; name=files; filename="

OctetStream == "Content-Type: application/octet-stream"

\* lines 192-200 for one file
PartBytes_nocrlf(file, boundary) ==
    <<"--", boundary, "CRLF">>
    \o <<Disposition, "DQUOTE">> \o file.filename
    \o <<"DQUOTE", "CRLF", OctetStream, "CRLF", "CRLF">>
    \o file.content

PartBytes(file, boundary) ==
    <<"--", boundary, "CRLF">>
    \o <<Disposition, "DQUOTE">> \o file.filename
    \o <<"DQUOTE", "CRLF", OctetStream, "CRLF", "CRLF">>
    \o file.content \o <<"CRLF">>

\* the loop of lines 191-200
RECURSIVE JoinParts(_, _)
JoinParts(files, boundary) ==
    IF files = <<>> THEN <<>>
    ELSE PartBytes(Head(files), boundary) \o JoinParts(Tail(files), boundary)

\* lines 188-204, for the value `boundary` of uuid.uuid4().hex
multipart_form(files, boundary) ==
    [body |-> JoinParts(files, boundary) \o <<"--", boundary, "--", "CRLF">>,
     ctype |-> <<"multipart/form-data; boundary=", boundary>>]

\* the first position from `from` on at which pat occurs in q, 0 if there is none
IndexOf(q, pat, from) ==
    LET at == {i \in from..(Len(q) - Len(pat) + 1) : SubSeq(q, i, i + Len(pat) - 1) = pat}
    IN IF at = {} THEN 0 ELSE CHOOSE i \in at : \A j \in at : i <= j

\* A multipart parser (RFC 2046), reading body from the token after a
\* delimiter line's boundary: "--" closes the body; otherwise the part's
\* header lines run to the first empty line, its content to the next line
\* that starts with "--" and the boundary, and its name is the one the
\* Content-Disposition line gives.
RECURSIVE ParseParts(_, _, _)
ParseParts(body, boundary, pos) ==
    IF pos > Len(body) \/ body[pos] # "CRLF" THEN <<>>
    ELSE LET blank == IndexOf(body, <<"CRLF", "CRLF">>, pos + 1)
             delim == IF blank = 0 THEN 0
                      ELSE IndexOf(body, <<"CRLF", "--", boundary>>, blank + 1)
             part == [name |-> IF body[pos + 1] = Disposition THEN "files" ELSE "none",
                      content |-> IF delim = 0 THEN SubSeq(body, blank + 2, Len(body))
                                  ELSE SubSeq(body, blank + 2, delim - 1)]
         IN IF blank = 0 THEN <<>>
            ELSE IF delim = 0 THEN <<part>>
            ELSE <<part>> \o ParseParts(body, boundary, delim + 3)

\* the parts a parser finds in body, given the content type sent with it
Decode(body, ctype) ==
    LET boundary == ctype[2]
    IN IF Len(body) >= 2 /\ body[1] = "--" /\ body[2] = boundary
       THEN ParseParts(body, boundary, 3)
       ELSE <<>>

RECURSIVE TotalLen(_)
TotalLen(files) ==
    IF files = <<>> THEN 0 ELSE Len(Head(files).content) + TotalLen(Tail(files))

InitMultipart ==
    /\ pc = "multipart" /\ what = "none" /\ step = "none" /\ rt = IdleRetry
    /\ gcsEnv = ""
    /\ operr = NoErr /\ opval = "none" /\ opCalls = 0 /\ opFails = 0
    /\ scen = 0 /\ trace = <<>> /\ obs = NoObs
    /\ uploaded = <<>> /\ downloaded = <<>>
    /\ now = 0 /\ srvErr = NoErr /\ job = NoJob
    /\ wb = TRUE /\ exitCode = -1 /\ err = NoErr /\ log = <<>>
    /\ mp = [NoMp EXCEPT !.stage = "files"] /\ doc = NoDoc

\* the caller puts one more file into the list it will pass
FilesAdd ==
    /\ pc = "multipart" /\ mp.stage = "files" /\ Len(mp.files) < MaxFiles
    /\ \E f \in FileNames :
          mp' = [mp EXCEPT !.files = Append(@, [filename |-> f, content |-> <<>>])]
    /\ UNCHANGED <<pc, rvars, svars, tvars, gcsEnv, doc, wb, evars>>

\* the caller extends the content of the file it added last
ContentAdd ==
    /\ pc = "multipart" /\ mp.stage = "files"
    /\ Len(mp.files) > 0 /\ TotalLen(mp.files) < MaxBytes
    /\ \E c \in ContentBytes :
          mp' = [mp EXCEPT !.files[Len(mp.files)].content = Append(@, c)]
    /\ UNCHANGED <<pc, rvars, svars, tvars, gcsEnv, doc, wb, evars>>

\* mp_body, mp_type = multipart_form(files)
MultipartCall ==
    /\ pc = "multipart" /\ mp.stage = "files"
    /\ \E b \in Boundaries :
          LET r == multipart_form(mp.files, b)
          IN mp' = [mp EXCEPT !.stage = "encoded", !.boundary = b,
                              !.body = r.body, !.ctype = r.ctype]
    /\ UNCHANGED <<pc, rvars, svars, tvars, gcsEnv, doc, wb, evars>>

\* the receiver of the request parses the body
MultipartParse ==
    /\ pc = "multipart" /\ mp.stage = "encoded"
    /\ mp' = [mp EXCEPT !.stage = "parsed", !.parts = Decode(mp.body, mp.ctype)]
    /\ UNCHANGED <<pc, rvars, svars, tvars, gcsEnv, doc, wb, evars>>

NextMultipart == FilesAdd \/ ContentAdd \/ MultipartCall \/ MultipartParse

SpecMultipart == InitMultipart /\ [][NextMultipart]_vars

-----------------------------------------------------------------------------
(* exercise_gcs_iam_policy, lines 395-464: the documents it builds and sends *)

\* A policy is [dict, version, blist, bindings]: whether it is a JSON object,
\* its "version" ("absent" if the key is missing), whether "bindings" is a
\* list, and the list. A binding is [dict, role, mlist, members]: whether it
\* is an object, its "role" ("absent" if missing), whether "members" is a
\* list, and the list.

\* most bindings in the policy of the initial answer
MaxBindings == 2

Viewer == "roles/storage.objectViewer"

Roles == {Viewer, "roles/storage.admin", "absent"}

\* values of a binding's "members": missing or no list, or a list
MemberLists ==
    {<<>>, <<"allUsers">>, <<"user:a">>, <<"user:a", "allUsers">>, <<"allUsers", "user:a">>,
     <<"allUsers", "allUsers">>}

NoBinding == [dict |-> FALSE, role |-> "absent", mlist |-> FALSE, members |-> <<>>]

Bindings ==
    {NoBinding}
    \cup {[dict |-> TRUE, role |-> r, mlist |-> TRUE, members |-> m] : r \in Roles, m \in MemberLists}
    \cup {[dict |-> TRUE, role |-> r, mlist |-> FALSE, members |-> <<>>] : r \in Roles}

BindingLists == UNION {[1..n -> Bindings] : n \in 0..MaxBindings}

\* the values of initial.get("policy")
Policies ==
    {NoPolicy}
    \cup {[dict |-> TRUE, version |-> v, blist |-> TRUE, bindings |-> bs] :
             v \in {"absent", "1", "3"}, bs \in BindingLists}
    \cup {[dict |-> TRUE, version |-> v, blist |-> FALSE, bindings |-> <<>>] :
             v \in {"absent", "1", "3"}}

\* {"version": 1, "bindings": []}, lines 397, 403, 406
DefaultPolicy == [dict |-> TRUE, version |-> "1", blist |-> TRUE, bindings |-> <<>>]

\* json.loads(json.dumps(x)) of a binding and of a policy: the same keys and
\* values, written out and built anew
JsonBinding(b) ==
    IF b.dict
    THEN [dict |-> TRUE, role |-> b.role, mlist |-> b.mlist,
          members |-> [k \in 1..Len(b.members) |-> b.members[k]]]
    ELSE b

JsonPolicy(p) ==
    IF p.dict
    THEN [dict |-> TRUE, version |-> p.version, blist |-> p.blist,
          bindings |-> [k \in 1..Len(p.bindings) |-> JsonBinding(p.bindings[k])]]
    ELSE p

DeepCopyRef_alias(ref) == ref

\* the object `modified` refers to after lines 400-406, `original` referring to ref
DeepCopyRef(ref) == "copy"

WithAllUsers_dup(members) == Append(members, "allUsers")

\* lines 423-424
WithAllUsers(members) ==
    IF \E k \in 1..Len(members) : members[k] = "allUsers"
    THEN members ELSE Append(members, "allUsers")

\* the loop body, lines 416-426: the binding afterwards
Ensured(b) ==
    IF ~b.dict \/ b.role # Viewer THEN b
    ELSE [b EXCEPT !.mlist = TRUE,
                   !.members = WithAllUsers(IF b.mlist THEN b.members ELSE <<>>)]

\* lines 408-432 on the object `modified` refers to
EnsurePublicRead(p) ==
    LET bindings == IF p.blist THEN p.bindings ELSE <<>>
        looped == [k \in 1..Len(bindings) |-> Ensured(bindings[k])]
        found == \E k \in 1..Len(bindings) : bindings[k].dict /\ bindings[k].role = Viewer
        new == [dict |-> TRUE, role |-> Viewer, mlist |-> TRUE, members |-> <<"allUsers">>]
    IN [dict |-> TRUE,
        version |-> IF p.version = "absent" THEN "1" ELSE p.version,
        blist |-> TRUE,
        bindings |-> IF found THEN looped ELSE Append(looped, new)]

InitGcsDoc ==
    /\ pc = "gcs_doc" /\ what = "none" /\ step = "none" /\ rt = IdleRetry
    /\ gcsEnv = ""
    /\ operr = NoErr /\ opval = "none" /\ opCalls = 0 /\ opFails = 0
    /\ scen = 0 /\ trace = <<>> /\ obs = NoObs
    /\ uploaded = <<>> /\ downloaded = <<>>
    /\ now = 0 /\ srvErr = NoErr /\ job = NoJob /\ mp = NoMp
    /\ wb = TRUE /\ exitCode = -1 /\ err = NoErr /\ log = <<>>
    /\ \E p \in Policies :
          doc = [NoDoc EXCEPT !.stage = "initial", !.initial = p, !.heap["initial"] = p]

DocStep(st) == pc = "gcs_doc" /\ doc.stage = st

\* lines 395-397
DocOriginal ==
    /\ DocStep("initial")
    /\ IF doc.initial.dict
       THEN doc' = [doc EXCEPT !.stage = "original", !.original = "initial"]
       ELSE doc' = [doc EXCEPT !.stage = "original", !.original = "default",
                               !.heap["default"] = DefaultPolicy]
    /\ UNCHANGED <<pc, rvars, svars, tvars, gcsEnv, mp, wb, evars>>

\* lines 399-406
DocCopy ==
    /\ DocStep("original")
    /\ LET target == DeepCopyRef(doc.original)
       IN doc' = [doc EXCEPT !.stage = "copied", !.modified = target,
                             !.heap[target] = JsonPolicy(doc.heap[doc.original])]
    /\ UNCHANGED <<pc, rvars, svars, tvars, gcsEnv, mp, wb, evars>>

\* lines 408-432
DocModify ==
    /\ DocStep("copied")
    /\ doc' = [doc EXCEPT !.stage = "modified",
                          !.heap[doc.modified] = EnsurePublicRead(@)]
    /\ UNCHANGED <<pc, rvars, svars, tvars, gcsEnv, mp, wb, evars>>

Sent(req, ref) == [req |-> req, policy |-> doc.heap[ref]]

\* line 436, answered 2xx with something other than {ok: false}
DocValidate ==
    /\ DocStep("modified")
    /\ doc' = [doc EXCEPT !.stage = "validated",
                          !.sent = Append(@, Sent("VALIDATE", doc.modified))]
    /\ UNCHANGED <<pc, rvars, svars, tvars, gcsEnv, mp, wb, evars>>

\* line 445, answered 2xx, and the GET of line 452 answered with a policy object
DocPut ==
    /\ DocStep("validated")
    /\ doc' = [doc EXCEPT !.stage = "put", !.sent = Append(@, Sent("PUT", doc.modified))]
    /\ UNCHANGED <<pc, rvars, svars, tvars, gcsEnv, mp, wb, evars>>

\* line 464
DocRestore ==
    /\ DocStep("put")
    /\ doc' = [doc EXCEPT !.stage = "restored",
                          !.sent = Append(@, Sent("RESTORE", doc.original))]
    /\ UNCHANGED <<pc, rvars, svars, tvars, gcsEnv, mp, wb, evars>>

NextGcsDoc == DocOriginal \/ DocCopy \/ DocModify \/ DocValidate \/ DocPut \/ DocRestore

SpecGcsDoc == InitGcsDoc /\ [][NextGcsDoc]_vars

-----------------------------------------------------------------------------
(* Claims *)

IsPrefix(a, b) == Len(a) <= Len(b) /\ \A k \in 1..Len(a) : a[k] = b[k]

\* C1, as stated: against a correctly behaving backend whose job eventually
\* reports succeeded, run_scenario never raises.
C1_NeverRaisesAgainstCorrectBackend == (wb /\ scen >= 1 /\ pc = "exit") => exitCode = 0

\* C1, amended: against a correctly behaving backend every scenario ends; it
\* returns, having compared downloaded bytes equal to the uploaded ones, unless
\* no poll issued before poll_job's 180 s deadline read succeeded, and then it
\* raises poll_job's timeout error and nothing else.
C1_ScenarioSucceedsWhenJobDoneInTime ==
    /\ (scen >= 1 /\ pc = "create_profile") ~> (~wb \/ pc \in {"scenario_done", "exit"})
    /\ [](wb /\ scen >= 1 /\ pc = "exit" /\ exitCode # 0 =>
             job.out = "job_timeout" /\ job.allPR /\ err.kind = "job_timeout")
    /\ [](pc = "scenario_done" => downloaded = uploaded /\ uploaded = HelloContent(scen))

C1_Witness ==
    pc = "scenario_done" /\ wb /\ Providers[scen] = "gcp_gcs"
    /\ downloaded = HelloContent(scen) /\ job.out = "returned"

\* C2: when the operation fails k < attempts times and then succeeds, retry
\* returns that value after exactly k + 1 calls and exactly k sleeps.
C2_RetryReturnsFirstSuccess ==
    what = "op" =>
       /\ step = "returned" =>
             /\ opCalls = opFails + 1 /\ opFails < rt.attempts
             /\ Len(rt.sleeps) = opFails
             /\ rt.status \in {"loop", "returned"}
       /\ rt.status = "returned" =>
             /\ step = "returned" /\ rt.val = opval /\ opval \in OpValues
             /\ pc = "exit" /\ exitCode = 0

C2_Witness ==
    what = "op" /\ rt.status = "returned" /\ rt.attempts = 5 /\ opFails = 3 /\ rt.val = "v2"

\* C3: when the operation fails on every call, retry calls it exactly
\* `attempts` times, sleeps attempts - 1 times and raises the error of the
\* last call itself.
C3_RetryRaisesLastError ==
    (what = "op" /\ rt.attempts >= 1) =>
       /\ rt.status = "raised" =>
             /\ opCalls = rt.attempts /\ opFails = rt.attempts
             /\ Len(rt.sleeps) = rt.attempts - 1
             /\ pc = "exit" /\ exitCode = 1
             /\ err = operr /\ err.id = rt.attempts /\ err \in {[e EXCEPT !.id = rt.attempts] : e \in OpErrs}
       /\ (opFails = rt.attempts /\ step = "raised" /\ pc = "exit") => rt.status = "raised"
       /\ opCalls <= rt.attempts

C3_Witness ==
    what = "op" /\ rt.status = "raised" /\ rt.attempts = 4 /\ err.id = 4 /\ err.kind = "network"

RECURSIVE Pow(_, _)
Pow(b, n) == IF n = 0 THEN 1 ELSE b * Pow(b, n - 1)

\* min(5 s, base_s * 1.3^(i-1)) in model units, for base_s >= 0.8 s: from
\* i - 1 = 8 on, 1.3^(i-1) > 8 > 5 / 0.8
RefDelay(base_s, i) ==
    IF i - 1 <= 7
    THEN Min(5 * Unit, (base_s \div Pow(10, i - 1)) * Pow(13, i - 1))
    ELSE 5 * Unit

ContractBreak(e) == e.kind \in {"protocol", "assertion"}

\* C5, as stated: a ProtocolViolation or AssertionFailure raised by an
\* operation that retry wraps ends the scenario at once.
C5_ContractBreakNeverRetried ==
    [][(pc = "retry" /\ step = "raised" /\ ContractBreak(operr))
          => (pc' = "exit" /\ err' = operr)]_vars

\* C5, amended: raised by an operation that retry wraps (ensure_bucket, the
\* policy adapters), it is retried like any failure: the operation is called
\* again while attempts remain and the scenario ends with that error only when
\* the last attempt raised it; raised anywhere else it ends the scenario at once.
C5_ContractBreakRetriedWhileAttemptsRemain ==
    [][/\ (pc = "retry" /\ step = "raised" /\ ContractBreak(operr)) =>
             IF rt.i < rt.attempts
             THEN /\ pc' = "retry" /\ step' = "call" /\ rt'.i = rt.i + 1
                  /\ exitCode' = -1 /\ err' = NoErr
             ELSE pc' = "exit" /\ exitCode' = 1 /\ err' = operr
       /\ (err = NoErr /\ ContractBreak(err') /\ ~(pc = "retry" /\ step = "raised")) =>
             /\ pc' = "exit" /\ exitCode' = 1
             /\ pc \in {"create_profile", "retry", "upload_create", "commit",
                        "poll_job", "download"}
             /\ pc = "retry" => what = "profile_test" /\ step = "returned"]_vars

C5_Witness ==
    /\ pc = "retry" /\ what = "policy" /\ step = "call" /\ rt.i = 3
    /\ rt.last_err.kind = "assertion" /\ rt.last_err.id = 2

\* C6: a first poll that reads succeeded ends poll_job after that one job GET
\* and no log request; once a poll read failed (or canceled) no job GET
\* follows and exactly one log request is issued before poll_job ends; no log
\* request is issued in a run that returns or times out.
C6_PollLogFetches ==
    /\ job.first = "succeeded" => job.out = "returned" /\ job.gets = 1 /\ job.logs = 0
    /\ job.seenFail =>
          /\ job.getsAfterFail = 0
          /\ pc \in {"poll_logs", "exit"}
          /\ pc = "poll_logs" => job.logs = 0
          /\ pc = "exit" => job.logs = 1 /\ job.out = "job_failed"
    /\ job.out \in {"returned", "job_timeout"} => job.logs = 0
    /\ job.logs > 0 => job.seenFail

C6_Witness ==
    /\ pc = "exit" /\ job.failSt = "failed" /\ job.gets = 2 /\ job.first = "running"
    /\ job.logs = 1

\* C7: once a poll read failed or canceled, poll_job ends by raising the job
\* failure that carries that status and the job's error text, whatever the log
\* request answered.
C7_JobFailureRaised ==
    job.seenFail =>
       /\ pc \in {"poll_logs", "exit"}
       /\ pc = "exit" =>
             /\ exitCode = 1 /\ job.out = "job_failed"
             /\ job.logAns \in LogAnswers
             /\ err = Err("job_failed", job.failSt, job.failErr)

C7_Witness ==
    /\ pc = "exit" /\ job.logAns = "failed"
    /\ err = Err("job_failed", "canceled", "boom")

\* C8: a poll_job whose polls all read pending or running stops, since each
\* such poll moves the clock towards the deadline, and ends with the timeout
\* error: it neither returns nor raises the job failure.
C8_PollTimesOut ==
    /\ (pc = "poll_job") ~> (pc # "poll_job")
    /\ [][(pc = "poll_job" /\ pc' = "poll_job") =>
             now < JobDeadline /\ now' >= now + PollSleep]_vars
    /\ [](job.allPR /\ job.out # "none" =>
             /\ job.out = "job_timeout" /\ pc = "exit" /\ exitCode = 1
             /\ err = Err("job_timeout", "180s", "none"))

C8_Witness == job.out = "job_timeout" /\ job.allPR /\ job.gets >= 2

\* the requests of the S3 adapter, in order
S3Requests == <<"GET", "VALIDATE", "PUT", "GET", "DELETE", "GET">>

\* C9: the S3 adapter issues GET, VALIDATE, PUT, GET, DELETE, GET in this
\* order; it returns only if the GET after the PUT read exists = true and the
\* GET after the DELETE read exists = false; any other value fails it, and no
\* DELETE is issued after a failed check of the PUT.
C9_S3Adapter ==
    (what = "policy" /\ Providers[scen] = "s3_compatible") =>
       /\ IsPrefix(trace, S3Requests)
       /\ step = "returned" =>
             /\ trace = S3Requests
             /\ obs.afterPut.dict /\ obs.afterPut.exists = "true"
             /\ obs.afterDel.dict /\ obs.afterDel.exists = "false"
       /\ (obs.afterPut.got /\ ~(obs.afterPut.dict /\ obs.afterPut.exists = "true")) =>
             step = "raised" /\ trace = SubSeq(S3Requests, 1, 4)
       /\ (obs.afterDel.got /\ ~(obs.afterDel.dict /\ obs.afterDel.exists = "false")) =>
             step = "raised"

C9_Witness ==
    /\ what = "policy" /\ Providers[scen] = "s3_compatible" /\ step = "returned"
    /\ trace = S3Requests

\* the GET after the PUT reflects the applied document
PutReflected(r) ==
    /\ r.dict /\ r.exists = "true" /\ r.pol.dict
    /\ r.pol.publicAccess = "container" /\ r.pol.stored = "has_e2e"

\* C10: the Azure adapter goes past its check of the PUT only if the GET read
\* exists = true, publicAccess = "container" and a stored access policy
\* "e2e-read"; otherwise it fails without issuing the DELETE.
C10_AzurePostPut ==
    (what = "policy" /\ Providers[scen] = "azure_blob") =>
       /\ (step \in {"az_reset", "az_get_after_reset", "returned"} \/ Len(trace) > 4) =>
             PutReflected(obs.afterPut)
       /\ (obs.afterPut.got /\ ~PutReflected(obs.afterPut)) =>
             step = "raised" /\ trace = <<"GET", "VALIDATE", "PUT", "GET">>

C10_Witness ==
    /\ what = "policy" /\ Providers[scen] = "azure_blob" /\ step = "az_reset"
    /\ PutReflected(obs.afterPut)

NonEmptyList(stored) == stored \in {"has_e2e", "other"}

InGcs == what = "policy" /\ Providers[scen] = "gcp_gcs"

\* the DELETE was answered by an HTTPFailure with the expected provider code
RejectedAsUnsupported(a) == a.kind = "http" /\ a.code = "bucket_policy_delete_unsupported"

\* C12, as stated: whenever the GCS adapter returns, it has issued the DELETE
\* and the DELETE was rejected with bucket_policy_delete_unsupported.
C12_ReturnsOnlyAfterRejectedDelete ==
    (InGcs /\ step = "returned") =>
       /\ Len(trace) > 0 /\ trace[Len(trace)] = "DELETE"
       /\ RejectedAsUnsupported(obs.del)

\* C12, amended: whenever the GCS adapter returns after having issued the
\* DELETE, the DELETE was rejected with bucket_policy_delete_unsupported; a
\* DELETE answered 2xx, or failing with any other error, makes the adapter
\* fail, whatever the mode; in strict mode the adapter never returns without
\* the DELETE, in non-strict mode it does so only after skipping a step.
C12_IssuedDeleteMustBeRejected ==
    InGcs =>
       /\ obs.del # NoErr =>
             /\ trace = <<"GET", "VALIDATE", "PUT", "GET", "PUT", "DELETE">>
             /\ step = "returned" <=> RejectedAsUnsupported(obs.del)
             /\ step = "raised" <=> ~RejectedAsUnsupported(obs.del)
       /\ (step = "returned" /\ obs.del = NoErr) =>
             /\ ~required /\ opval = "skipped"
             /\ Len(trace) <= 4 /\ \A k \in 1..Len(trace) : trace[k] # "DELETE"

C12_Witness ==
    /\ InGcs /\ step = "returned" /\ required
    /\ obs.del = Err("http", "bucket_policy_delete_unsupported", "none")

\* the requests of the GCS adapter, in order
GcsRequests == <<"GET", "VALIDATE", "PUT", "GET", "PUT", "DELETE">>

\* the position in GcsRequests of the request of a step
GcsRequestOf(where) ==
    CASE where = "get" -> 1 [] where = "validate" -> 2 [] where = "put" -> 3
      [] where = "get-after-put" -> 4 [] where = "restore" -> 5 [] OTHER -> 6

\* E2E_GCS_IAM is 1, true, yes or y in some spelling of upper and lower case
StrictValue(e) == e \in {"1", "TRUE", "Yes", "y"}

\* C13: when the validate request (or its {ok: false} answer), the PUT or the
\* GET after the PUT of the GCS adapter fails, the adapter issues no further
\* request; it returns in non-strict mode and raises that failure in strict
\* mode, which is on exactly for E2E_GCS_IAM in 1, true, yes, y in any case.
C13_SkipOrRaiseByToggle ==
    /\ required <=> StrictValue(gcsEnv)
    /\ (InGcs /\ obs.failAt \in {"validate", "put", "get-after-put"}) =>
          /\ trace = SubSeq(GcsRequests, 1, GcsRequestOf(obs.failAt))
          /\ IF StrictValue(gcsEnv)
             THEN step = "raised" /\ operr = [obs.fail EXCEPT !.id = opCalls]
             ELSE step = "returned" /\ operr = NoErr /\ Running

C13_Witness ==
    /\ InGcs /\ gcsEnv = "Yes" /\ obs.failAt = "validate"
    /\ obs.fail = Err("assertion", "validate", "none") /\ step = "raised"

\* C14, as stated: when the initial GET of the GCS adapter fails, the adapter
\* fails, in non-strict mode as well.
C14_InitialGetFailureFails ==
    (InGcs /\ obs.failAt = "get") => step = "raised"

\* C14, amended: a failed initial GET request is skipped like the later steps:
\* the adapter issues no further request, returns in non-strict mode and
\* raises that failure in strict mode; an initial answer that is no JSON
\* object fails the adapter in both modes.
C14_InitialGetFailureSkipped ==
    InGcs =>
       /\ obs.failAt = "get" =>
             /\ trace = <<"GET">>
             /\ IF StrictValue(gcsEnv)
                THEN step = "raised" /\ operr = [obs.fail EXCEPT !.id = opCalls]
                ELSE step = "returned" /\ operr = NoErr /\ Running
       /\ (obs.initial.got /\ ~obs.initial.dict) =>
             /\ trace = <<"GET">> /\ step = "raised"
             /\ operr = [Err("protocol", "policy_envelope", "none") EXCEPT !.id = opCalls]

C14_Witness ==
    /\ InGcs /\ obs.failAt = "get" /\ obs.fail = Err("network", "none", "none")
    /\ step = "returned" /\ gcsEnv = "0"

\* C15: while GET /meta fails, every poll records its error and moves the
\* clock on, so wait_for_server stops; if no poll succeeded before the
\* deadline it raises the timeout error naming timeout_s and holding the last
\* error observed; a poll that succeeds before the deadline makes it return at
\* once, and no request to /meta follows.
C15_WaitForServer ==
    /\ (pc = "wait_server") ~> (pc # "wait_server")
    /\ [][/\ (pc = "wait_server" /\ pc' = "wait_server") =>
                /\ now < ServerTimeout /\ now' >= now + PollSleep
                /\ srvErr' \in ReqErrs \cup {Err("protocol", "meta", "none")}
          /\ (pc = "wait_server" /\ pc' = "exit") =>
                /\ now >= ServerTimeout /\ srvErr # NoErr
                /\ exitCode' = 1
                /\ err' = Err("server_timeout", "timeout_s", ErrText(srvErr))
          /\ (pc = "wait_server" /\ pc' \notin {"wait_server", "exit"}) =>
                /\ now < ServerTimeout
                /\ pc' = "create_profile" /\ scen' = 1 /\ Running'
          /\ pc # "wait_server" => pc' # "wait_server"]_vars

C15_Witness ==
    /\ pc = "exit" /\ scen = 0 /\ exitCode = 1
    /\ err = Err("server_timeout", "timeout_s", "http:internal")

Last(q) == q[Len(q)]

Logged(line) == \E k \in 1..Len(log) : log[k] = line

\* C16: the process exits with status 0 only when the readiness wait and the
\* three scenarios have returned, and only then is "All E2E scenarios passed"
\* logged; an exception raised anywhere is logged and ends the process with a
\* status other than 0.
C16_ExitContract ==
    /\ [](exitCode = 0 =>
             /\ pc = "exit" /\ err = NoErr /\ scen = Len(ScenarioNames)
             /\ Last(log) = "All E2E scenarios passed")
    /\ [](Logged("All E2E scenarios passed") => exitCode = 0)
    /\ [](err # NoErr =>
             /\ pc = "exit" /\ exitCode = 1
             /\ Last(log) = "E2E failed: " \o ErrText(err))
    /\ [](pc = "exit" => exitCode \in {0, 1} /\ (exitCode = 1 <=> err # NoErr))
    /\ [][(exitCode # 0 /\ exitCode' = 0) =>
             /\ pc = "scenario_done" /\ scen = Len(ScenarioNames)
             /\ SubSeq(log, 1, 3) = <<ScenarioLine("minio"), ScenarioLine("azurite"),
                                     ScenarioLine("fake-gcs")>>]_vars

C16_Witness ==
    /\ pc = "exit" /\ exitCode = 0 /\ scen = 3
    /\ Last(log) = "All E2E scenarios passed"
    /\ downloaded = HelloContent(3)

\* the states in which run_scenario is about to issue a request
InScenario == pc \in {"create_profile", "retry", "upload_create", "upload_files",
                      "commit", "poll_job", "poll_logs", "download"}

\* C17: the scenarios are entered in the order minio, azurite, fake-gcs, the
\* first after wait_for_server returned and each next one from the return of
\* the one before; requests are issued by the scenario entered last only, and
\* once a scenario has raised nothing is issued or entered any more.
C17_ScenariosInOrder ==
    /\ [](/\ scen \in 0..3
          /\ log = SubSeq(<<ScenarioLine("minio"), ScenarioLine("azurite"),
                            ScenarioLine("fake-gcs")>>, 1, scen)
                   \o (IF pc = "exit" THEN <<Last(log)>> ELSE <<>>)
          /\ InScenario => scen >= 1
          /\ pc = "wait_server" <=> scen = 0 /\ pc # "exit")
    /\ [][/\ scen' # scen =>
                /\ scen' = scen + 1
                /\ IF scen = 0 THEN pc = "wait_server" ELSE pc = "scenario_done"
                /\ pc' = "create_profile" /\ err = NoErr
          /\ pc = "exit" => pc' = "exit" /\ scen' = scen /\ log' = log
          /\ (InScenario /\ pc' # "exit") => scen' = scen]_vars

C17_Witness ==
    /\ pc = "exit" /\ exitCode = 1 /\ scen = 2
    /\ log = <<ScenarioLine("minio"), ScenarioLine("azurite"), "E2E failed: assertion:download">>

\* C18: an attempt of the profile test that is answered 2xx without ok = true
\* counts as a failed attempt: while attempts remain the test is called again
\* and the scenario goes on.
C18_ProfileTestRetriedUntilOk ==
    [][(/\ pc = "retry" /\ what = "profile_test" /\ step = "returned"
        /\ opval \in {"ok_false", "ok_absent"} /\ rt.i < ProfileTestAttempts)
          => (/\ pc' = "retry" /\ what' = "profile_test" /\ step' = "call"
              /\ rt'.i = rt.i + 1 /\ Running')]_vars

\* C19: bucket-ensure fails only if no attempt could find the bucket: a
\* create request rejected because the bucket exists does not fail an attempt
\* (the listing follows it), so the step never ends with that rejection.
C19_EnsureSucceedsWhenBucketExists ==
    (what = "ensure_bucket" /\ step = "raised") =>
       /\ operr.code # "bucket_exists"
       /\ pc = "exit" => err.code # "bucket_exists"

\* the parts are the files, in order, each named `files`
PartsAreFiles(parts, files) ==
    /\ Len(parts) = Len(files)
    /\ \A k \in 1..Len(files) :
          parts[k].name = "files" /\ parts[k].content = files[k].content

HasLineBreak(q) == \E k \in 1..Len(q) : q[k] = "CRLF"

HasDelimiter(q, boundary) == IndexOf(q, <<"--", boundary>>, 1) # 0

CommonEnvelope(r) == r.dict /\ r.bucket = "same" /\ r.exists # "absent"

\* C21: in each of the three adapters, once the initial GET was answered 2xx
\* with something that is not the common envelope of the requested bucket, the
\* adapter has raised and the initial GET is the only request it issued.
C21_MalformedInitialIsHardFailure ==
    (pc = "retry" /\ what = "policy" /\ obs.initial.got /\ ~CommonEnvelope(obs.initial)) =>
        /\ trace = <<"GET">>
        /\ step = "raised"
        /\ operr.kind = "protocol"

\* the S3 or the Azure adapter is running, or has just returned or raised
InS3OrAzure ==
    pc = "retry" /\ what = "policy" /\ Providers[scen] \in {"s3_compatible", "azure_blob"}

Holds(q, x) == \E k \in 1..Len(q) : q[k] = x

\* C22: in the S3 and Azure adapters a validate answer {ok: false} makes the
\* adapter raise with the validate request as the last request issued, so no
\* PUT is issued in that invocation; a PUT is issued only after the validate
\* request was answered, and answered with something other than {ok: false}.
C22_ValidateRejectionIsHardFailure ==
    InS3OrAzure =>
       /\ obs.validate = "ok_false" =>
             /\ step = "raised" /\ operr.kind = "assertion" /\ operr.code = "validate"
             /\ trace = <<"GET", "VALIDATE">>
       /\ Holds(trace, "PUT") =>
             /\ obs.validate = "ok"
             /\ SubSeq(trace, 1, 3) = <<"GET", "VALIDATE", "PUT">>

C22_Witness ==
    /\ InS3OrAzure /\ Providers[scen] = "azure_blob"
    /\ obs.validate = "ok_false" /\ step = "raised" /\ trace = <<"GET", "VALIDATE">>
    /\ opCalls = 2

\* the sleeps of a retry call whose operation has failed n times with more
\* attempts to go
BlindSleeps(base_s, n) == [k \in 1..n |-> sleep_backoff(base_s, k)]

\* C23: the number of calls, the sequence of sleeps and the kind of outcome of
\* a retry call are functions of attempts, the base delay and the attempts at
\* which the operation failed (retry stops at the first success, so: of how
\* many calls failed and whether the last one returned); no field of a failure
\* enters them, so two runs that agree on these agree on the outcome. A failure
\* is followed by the next call whenever attempts remain, whatever it carries.
C23_RetryBlindToFailureContent ==
    /\ [](what = "op" =>
            /\ opCalls = opFails + (IF step = "returned" THEN 1 ELSE 0)
            /\ rt.sleeps = BlindSleeps(rt.base, IF step = "raised" THEN opFails - 1 ELSE opFails)
            /\ rt.status = "raised" <=>
                  pc = "exit" /\ step # "returned" /\ opFails = Max(0, rt.attempts)
            /\ rt.status = "returned" <=> pc = "exit" /\ step = "returned")
    /\ [][(what = "op" /\ step = "raised" /\ pc = "retry") =>
            IF rt.i < rt.attempts
            THEN /\ pc' = "retry" /\ step' = "call" /\ rt'.i = rt.i + 1
                 /\ rt'.sleeps = Append(rt.sleeps, sleep_backoff(rt.base, rt.i))
            ELSE pc' = "exit" /\ rt'.status = "raised"]_vars

C23_Witness ==
    /\ what = "op" /\ rt.status = "returned" /\ opFails = 2 /\ rt.attempts = 3
    /\ rt.last_err.detail = "retryable=false" /\ Len(rt.sleeps) = 2

\* C24: a poll of GET /meta or of the job is issued only while the clock is
\* before the deadline; the timeout errors are raised by the loop test alone,
\* in a step that issues no request, so no answer is discarded: a job poll
\* issued before the deadline that reads succeeded makes poll_job return, and
\* one that reads failed or canceled leads to the job-failure error, also when
\* the answer arrived at or after the deadline.
C24_DeadlineCheckedBetweenPolls ==
    /\ [][/\ (pc = "wait_server" /\ pc' # "exit") => now < ServerTimeout
          /\ (pc = "poll_job" /\ ~(pc' = "exit" /\ err'.kind = "job_timeout")) =>
                now < JobDeadline
          /\ (err'.kind = "server_timeout" /\ err.kind # "server_timeout") =>
                pc = "wait_server" /\ now >= ServerTimeout /\ srvErr' = srvErr
          /\ (err'.kind = "job_timeout" /\ err.kind # "job_timeout") =>
                /\ pc = "poll_job" /\ now >= JobDeadline
                /\ job' = [job EXCEPT !.out = "job_timeout"]
          /\ pc = "poll_logs" => pc' = "exit" /\ err' = JobFailure(job)]_vars
    /\ [](pc = "download" => job.out = "returned" /\ err = NoErr)
    /\ [](pc = "poll_logs" => job.term \in {"failed", "canceled"} /\ err = NoErr)

C24_Witness ==
    /\ pc = "download" /\ now >= JobDeadline
    /\ job.out = "returned" /\ err = NoErr /\ exitCode = -1

\* the policy the GCS adapter observed: the policy object of the initial answer,
\* or the default when the answer carried none
Observed == IF doc.initial.dict THEN doc.initial ELSE DefaultPolicy

Count(q, x) == Cardinality({k \in 1..Len(q) : q[k] = x})

IsViewer(b) == b.dict /\ b.role = Viewer

\* C25: the document the GCS adapter validates and applies has a binding for
\* roles/storage.objectViewer with allUsers among its members. Each binding of
\* the observed policy for that role is kept in place with allUsers added once
\* if it was not there (and no allUsers added if it was); if there was none,
\* one binding {role, members: [allUsers]} follows the observed ones; every
\* other binding is unchanged, the members that were there keep their places,
\* and a missing version becomes 1 while a given one is kept.
C25_CandidateGrantsPublicRead ==
    (pc = "gcs_doc" /\ doc.stage \in {"validated", "put", "restored"}) =>
       LET old == IF Observed.blist THEN Observed.bindings ELSE <<>>
           m == doc.sent[1].policy
           n == Len(old)
           had == \E k \in 1..n : IsViewer(old[k])
       IN /\ doc.sent[1].req = "VALIDATE"
          /\ doc.stage # "validated" => doc.sent[2] = [req |-> "PUT", policy |-> m]
          /\ m.dict /\ m.blist
          /\ \E k \in 1..Len(m.bindings) :
                IsViewer(m.bindings[k]) /\ Count(m.bindings[k].members, "allUsers") >= 1
          /\ Len(m.bindings) = IF had THEN n ELSE n + 1
          /\ ~had => m.bindings[n + 1] =
                       [dict |-> TRUE, role |-> Viewer, mlist |-> TRUE, members |-> <<"allUsers">>]
          /\ \A k \in 1..n :
                IF IsViewer(old[k])
                THEN LET was == IF old[k].mlist THEN old[k].members ELSE <<>>
                         is == m.bindings[k].members
                     IN /\ IsViewer(m.bindings[k]) /\ m.bindings[k].mlist
                        /\ IsPrefix(was, is)
                        /\ Count(is, "allUsers") = Max(1, Count(was, "allUsers"))
                        /\ Count(is, "user:a") = Count(was, "user:a")
                ELSE m.bindings[k] = old[k]
          /\ m.version = IF Observed.version = "absent" THEN "1" ELSE Observed.version

C25_Witness ==
    /\ pc = "gcs_doc" /\ doc.stage = "put"
    /\ Len(Observed.bindings) = 2
    /\ Observed.bindings[1] = [dict |-> TRUE, role |-> Viewer, mlist |-> TRUE,
                               members |-> <<"allUsers", "user:a">>]
    /\ Observed.bindings[2].role = Viewer /\ Observed.bindings[2].members = <<"user:a">>
    /\ doc.sent[2].policy.bindings[2].members = <<"user:a", "allUsers">>
    /\ doc.sent[2].policy.bindings[1] = Observed.bindings[1]
    /\ Observed.version = "absent"

\* C26: building the modified policy leaves the original as it was observed:
\* from line 397 on `original` refers to the observed policy (the default when
\* the initial answer carried no policy object), unchanged, and that is the
\* document the restore PUT sends; it holds no allUsers the adapter added.
C26_RestoreSendsOriginal ==
    (pc = "gcs_doc" /\ doc.stage \notin {"none", "initial"}) =>
       /\ doc.heap[doc.original] = Observed
       /\ doc.heap["initial"] = doc.initial
       /\ doc.stage = "restored" =>
             /\ doc.sent[3] = [req |-> "RESTORE", policy |-> Observed]
             /\ Len(doc.sent) = 3

C26_Witness ==
    /\ pc = "gcs_doc" /\ doc.stage = "restored"
    /\ doc.initial.dict /\ doc.initial.bindings = <<>>
    /\ doc.sent[2].policy.bindings # <<>>
    /\ doc.sent[3].policy = doc.initial

\* the GCS adapter's requests up to and including the restore PUT
UpToRestore == <<"GET", "VALIDATE", "PUT", "GET", "PUT">>

\* C27: once the restore PUT of the GCS adapter has failed, in strict mode the
\* adapter has raised that failure and the restore PUT is its last request (no
\* DELETE); with strict mode off the adapter goes on to the DELETE and, once
\* that is answered, has returned exactly if the DELETE was rejected with
\* bucket_policy_delete_unsupported, and has raised an error of the DELETE
\* check otherwise.
C27_RestoreFailureSwallowedUnlessStrict ==
    (InGcs /\ obs.failAt = "restore") =>
       IF StrictValue(gcsEnv)
       THEN /\ step = "raised" /\ operr = [obs.fail EXCEPT !.id = opCalls]
            /\ trace = UpToRestore /\ obs.del = NoErr
       ELSE \/ step = "gcs_delete" /\ trace = UpToRestore /\ obs.del = NoErr
            \/ /\ trace = Append(UpToRestore, "DELETE") /\ obs.del # NoErr
               /\ IF RejectedAsUnsupported(obs.del)
                  THEN step = "returned"
                  ELSE /\ step = "raised"
                       /\ [operr EXCEPT !.id = 0] \in
                             {Err("assertion", "delete_succeeded", "none"),
                              Err("assertion", "delete_code", obs.del.code), obs.del}

C27_Witness ==
    /\ InGcs /\ obs.failAt = "restore" /\ obs.fail.kind = "network"
    /\ gcsEnv = "on" /\ step = "returned"
    /\ obs.del = Err("http", "bucket_policy_delete_unsupported", "none")

\* the apply PUT of the GCS adapter was answered 2xx: the GET after it was issued
ApplySucceeded == Len(trace) >= 4 /\ trace[3] = "PUT" /\ trace[4] = "GET"

\* C28: whenever the GCS adapter has returned or raised after its apply PUT
\* succeeded, it has issued the restore PUT as its fifth request.
C28_RestoreAlwaysIssuedAfterApply ==
    (InGcs /\ pc = "retry" /\ step \in {"returned", "raised"} /\ ApplySucceeded) =>
        Len(trace) >= 5 /\ trace[5] = "PUT"

\* C29: a job GET of poll_job that fails ends the run at once with that
\* failure: the process exits from the very step, before the deadline, with
\* no log request issued, no terminal status read and no retry call under way;
\* while poll_job runs or after it returned, every job GET issued was answered.
C29_JobGetFailurePropagates ==
    /\ [](job.out = "propagated" =>
             /\ pc = "exit" /\ exitCode = 1
             /\ err \in ReqErrs \cup {Err("protocol", "job", "none")}
             /\ job.logs = 0 /\ ~job.seenFail /\ job.term = "none"
             /\ job.first # "succeeded"
             /\ rt = IdleRetry /\ what = "none")
    /\ [][(pc = "poll_job" /\ err' # NoErr /\ err'.kind # "job_timeout") =>
             /\ now < JobDeadline
             /\ pc' = "exit" /\ job'.out = "propagated"
             /\ job'.logs = 0 /\ job'.gets = Bump(job.gets)]_vars
    /\ []((pc \in {"poll_job", "poll_logs", "download"} /\ job.gets > 0) =>
             job.first \in JobStatuses)

C29_Witness ==
    /\ pc = "exit" /\ job.out = "propagated" /\ err = Err("network", "none", "none")
    /\ job.gets = 2 /\ job.first = "running" /\ job.allPR = FALSE

\* the statuses poll_job ends on
TerminalStatuses == {"succeeded", "failed", "canceled"}

\* C30: a poll that reads a status other than succeeded, failed and canceled
\* (pending, running, none, an unknown one) is followed by the sleep and the
\* next loop test, with no log request; poll_job returns only on succeeded and
\* fetches logs only for failed or canceled; and when it ends without having
\* read one of the three, it ends with the timeout error.
C30_OtherStatusesAreNonTerminal ==
    /\ [][(pc = "poll_job" /\ job.gets = 0 /\ job'.first \in JobStatuses \ TerminalStatuses) =>
             /\ pc' = "poll_job" /\ now' >= now + PollSleep
             /\ job'.logs = 0 /\ job'.out = "none" /\ err' = NoErr]_vars
    /\ []((pc = "download" \/ job.out = "returned") => job.ret = "succeeded")
    /\ []((pc = "poll_logs" \/ job.logs > 0) =>
             job.term \in {"failed", "canceled"} /\ job.failSt = job.term)
    /\ [](pc = "poll_job" => job.logs = 0 /\ job.out = "none" /\ job.ret = "none" /\ ~job.seenFail)
    /\ []((job.out \notin {"none", "propagated"} /\ ~job.seenFail /\ job.ret = "none") =>
             /\ job.out = "job_timeout" /\ job.logs = 0
             /\ pc = "exit" /\ err = Err("job_timeout", "180s", "none"))

C30_Witness ==
    /\ job.out = "job_timeout" /\ job.first = "unknown" /\ ~job.allPR
    /\ job.logs = 0 /\ err.kind = "job_timeout"

\* C31: a retry call with attempts <= 0 never calls the operation and never
\* sleeps, and ends by raising the error "<label> failed" made at line 66; a
\* call with attempts >= 1 never calls the operation more than `attempts`
\* times, has called it at least once whenever it has returned or raised, and
\* never raises the made-up error.
C31_RetryCallBounds ==
    what = "op" =>
       /\ rt.attempts <= 0 =>
             /\ opCalls = 0 /\ opFails = 0 /\ rt.sleeps = <<>>
             /\ step = "call" /\ rt.status \in {"loop", "raised"}
             /\ pc = "exit" <=> rt.status = "raised"
             /\ pc = "exit" => exitCode = 1 /\ err = RetryFailed("op")
       /\ rt.attempts >= 1 =>
             /\ opCalls <= rt.attempts
             /\ (pc = "exit" \/ rt.status \in {"returned", "raised"}) => opCalls >= 1
             /\ err.kind # "retry_failed"

C31_Witness ==
    /\ what = "op" /\ rt.attempts = -1 /\ pc = "exit" /\ rt.status = "raised"
    /\ err = RetryFailed("op") /\ opCalls = 0
    /\ log = <<"E2E failed: retry_failed:op">>

====
